---- MODULE Spec2Model ----
(***************************************************************************)
(* Model of libimage/push.go: Runtime.Push and pushImage.                  *)
(*                                                                         *)
(* Strings are sequences of tokens.  A token is either one of the          *)
(* delimiter characters ":" and "/" or a word (a maximal run of other      *)
(* characters).  "docker://quay.io/repo:v1" is                             *)
(*   <<"docker", ":", "/", "/", "quay.io", "/", "repo", ":", "v1">>.       *)
(*                                                                         *)
(* The collaborators push.go calls (alltransports.ParseImageName,          *)
(* reference.ParseNamed, Runtime.LookupImage, Image.NamedTaggedRepoTags)   *)
(* are modelled on this token alphabet from their documented behaviour;    *)
(* StorageReference, NamedTaggedRepoTags, newCopier and copy may each      *)
(* succeed or fail.                                                        *)
(***************************************************************************)
EXTENDS Integers, Sequences, FiniteSets, TLC

\* ------------------------------------------------------------------ bounds
MaxCalls == 2

MaxNames == 2

\* ----------------------------------------------------------------- strings
NoStr == <<>>

Colon == <<":">>

DockerPrefix == <<"docker", ":", "/", "/">>

HasPrefix(s, p) == Len(s) >= Len(p) /\ SubSeq(s, 1, Len(p)) = p

TrimPrefix(s, p) == IF HasPrefix(s, p) THEN SubSeq(s, Len(p) + 1, Len(s)) ELSE s

ContainsAny(s, c) == \E i \in 1..Len(s) : s[i] = c

\* index of the first occurrence of token c in s, 0 when absent
IndexOf(s, c) ==
    IF ContainsAny(s, c)
    THEN CHOOSE i \in 1..Len(s) : s[i] = c /\ \A j \in 1..(i - 1) : s[j] # c
    ELSE 0

\* index of the last occurrence of token c in s, 0 when absent
LastIndexOf(s, c) ==
    IF ContainsAny(s, c)
    THEN CHOOSE i \in 1..Len(s) : s[i] = c /\ \A j \in (i + 1)..Len(s) : s[j] # c
    ELSE 0

Tail2(s, i) == SubSeq(s, i + 1, Len(s))

Head2(s, i) == SubSeq(s, 1, i - 1)

IsDelim(t) == t \in {":", "/"}

\* words that are not valid lower-case repository name components
UpperWords == {"Repo"}

\* words made of digits only (a port number)
NumericWords == {"5000"}

\* words that contain a "."
DottedWords == {"quay.io", "x.tar"}

IsWord(t) == ~IsDelim(t)

IsNameWord(t) == IsWord(t) /\ t \notin UpperWords

\* ---------------------------------------------- docker/reference (library)
NoTag == ""

RefErr(kind, s) == [ok |-> FALSE, kind |-> kind, arg |-> s]

\* every "/"-separated component of s, from position i on, is one name word
RECURSIVE ComponentsOK(_)
ComponentsOK(s) ==
    IF Len(s) = 0 THEN FALSE
    ELSE IF ~IsNameWord(s[1]) THEN FALSE
    ELSE IF Len(s) = 1 THEN TRUE
    ELSE s[2] = "/" /\ ComponentsOK(Tail2(s, 2))

\* the name part is  [ word [":" port] "/" ] word { "/" word }
NameOK(n) ==
    \/ ComponentsOK(n)
    \/ /\ Len(n) >= 5
       /\ IsWord(n[1]) /\ n[2] = ":" /\ n[3] \in NumericWords /\ n[4] = "/"
       /\ ComponentsOK(Tail2(n, 4))

\* the first "/"-separated component names a registry domain
HasDomain(n) ==
    LET i == IndexOf(n, "/")
    IN  /\ i > 1
        /\ \/ ContainsAny(Head2(n, i), ":")
           \/ \E j \in 1..(i - 1) : n[j] \in DottedWords
           \/ Head2(n, i) = <<"localhost">>

\* reference.ParseNormalizedNamed: name [ ":" tag ]
ParseNormalizedNamed(s) ==
    LET c    == LastIndexOf(s, ":")
        sl   == LastIndexOf(s, "/")
        tagd == c > sl /\ c > 0
        name == IF tagd THEN Head2(s, c) ELSE s
        tagp == IF tagd THEN Tail2(s, c) ELSE <<>>
    IN  IF tagd /\ ~(Len(tagp) = 1 /\ IsWord(tagp[1]))
        THEN RefErr("invalid reference format", s)
        ELSE IF ~NameOK(name)
        THEN RefErr("invalid reference format", s)
        ELSE [ok |-> TRUE, name |-> name,
              tag |-> IF tagd THEN tagp[1] ELSE NoTag,
              canonical |-> HasDomain(name)]

\* reference.ParseNamed: as above, and the input must be in canonical form
ParseNamed(s) ==
    LET r == ParseNormalizedNamed(s)
    IN  IF ~r.ok THEN r
        ELSE IF ~r.canonical THEN RefErr("repository name must be canonical", s)
        ELSE r

\* ---------------------------------------------- alltransports (library)
DockerTransportName == "docker"

DockerArchiveTransportName == "docker-archive"

KnownTransports == {"docker", "docker-archive", "dir"}

\* docker.ParseReference
DockerParseReference(rest) ==
    IF ~HasPrefix(rest, <<"/", "/">>)
    THEN RefErr("docker: image reference does not start with //", rest)
    ELSE LET r == ParseNormalizedNamed(Tail2(rest, 2))
         IN  IF ~r.ok THEN r
             ELSE [ok |-> TRUE, transport |-> DockerTransportName, location |-> Tail2(rest, 2)]

\* docker/archive.ParseReference: path [ ":" reference ]
ArchiveParseReference(rest) ==
    LET c == IndexOf(rest, ":")
    IN  IF Len(rest) = 0
        THEN RefErr("docker-archive reference cannot be empty", rest)
        ELSE IF c = 0
        THEN [ok |-> TRUE, transport |-> DockerArchiveTransportName, location |-> rest]
        ELSE LET r == ParseNormalizedNamed(Tail2(rest, c))
             IN  IF ~r.ok THEN r
                 ELSE [ok |-> TRUE, transport |-> DockerArchiveTransportName, location |-> rest]

\* directory.ParseReference
DirParseReference(rest) == [ok |-> TRUE, transport |-> "dir", location |-> rest]

\* alltransports.ParseImageName: transport ":" reference
ParseImageName(s) ==
    LET c == IndexOf(s, ":")
    IN  IF c = 0
        THEN RefErr("expected colon-separated transport:reference", s)
        ELSE IF ~(c = 2 /\ s[1] \in KnownTransports)
        THEN RefErr("unknown transport", s)
        ELSE IF s[1] = "docker" THEN DockerParseReference(Tail2(s, c))
        ELSE IF s[1] = "docker-archive" THEN ArchiveParseReference(Tail2(s, c))
        ELSE DirParseReference(Tail2(s, c))


\* ------------------------------------------------- Local Image Store (library)
ImageID == "abc123"

RepoLatest == <<"quay.io", "/", "repo", ":", "latest">>

RepoV1 == <<"quay.io", "/", "repo", ":", "v1">>

OtherV1 == <<"quay.io", "/", "other", ":", "v1">>

RepoNames == {RepoLatest, RepoV1, OtherV1}

\* the names the stored image may carry: duplicate-free lists of repository names
NameLists ==
    {ns \in UNION {[1..n -> RepoNames] : n \in 0..MaxNames} :
        \A a, b \in 1..Len(ns) : a # b => ns[a] # ns[b]}

InNames(s, ns) == \E k \in 1..Len(ns) : ns[k] = s

NoErr == [kind |-> "nil", n |-> 0, arg |-> NoStr]

Err(kind, n, arg) == [kind |-> kind, n |-> n, arg |-> arg]

\* Runtime.LookupImage: (found, resolvedSource, err) for the one stored image
LookupImage(src, ns) ==
    IF src = <<"abc">> \/ InNames(src, ns)
    THEN [found |-> TRUE, resolvedSource |-> src, err |-> NoErr]
    ELSE IF ~ContainsAny(src, ":") /\ InNames(src \o <<":", "latest">>, ns)
    THEN [found |-> TRUE, resolvedSource |-> src \o <<":", "latest">>, err |-> NoErr]
    ELSE [found |-> FALSE, resolvedSource |-> NoStr, err |-> Err("ErrImageUnknown", 0, src)]

\* Image.NamedTaggedRepoTags followed by Tag() on each element
RepoTags(ns) == [k \in 1..Len(ns) |-> ns[k][Len(ns[k])]]

\* ------------------------------------------------------------ inputs
Sources == {<<"abc">>, RepoV1, <<"quay.io", "/", "repo">>, <<"nosuch">>}

Destinations ==
    { NoStr,
      <<"quay.io", "/", "repo">>,
      <<"quay.io", "/", "repo", ":", "v1">>,
      <<"docker", ":", "/", "/", "quay.io", "/", "repo">>,
      <<"docker", ":", "/", "/", "quay.io", "/", "repo", ":", "v1">>,
      <<"docker-archive", ":", "/", "tmp", "/", "x.tar">>,
      <<"docker-archive", ":", "5000", "/", "foo", ":", "v1">>,
      <<"docker-archive", ":", "5000", "/", "foo">>,
      <<"docker-archive">>,
      <<"dir">>,
      <<"dir", ":", "/", "tmp">>,
      <<"Repo">> }

\* ------------------------------------------------------------ Push (pure parts)
ConflictingTagError == Err("tag can't be used with --all-tags/-a", 0, NoStr)

UnsupportedModeError == Err("--all-tags can only be used with docker transport", 0, NoStr)

\* variant: an empty destination defaults to the ID of the image
EffectiveDestinationFromID(dst, resolved) == IF dst = NoStr THEN <<ImageID>> ELSE dst

\* push.go 45-50: an empty destination defaults to the resolved source
EffectiveDestination(dst, resolved) == IF dst = NoStr THEN resolved ELSE dst

\* variant: the lookup error is not looked at
LookupFailedNever(found) == FALSE

\* push.go 39-41: LookupImage returned an error
LookupFailed(found) == ~found.found

\* variant: the check looks at the destination as the caller gave it
CheckedDestinationAsGiven(dst, resolved) == dst

\* push.go 49, 56: the check at line 56 reads destination after the assignment
\* at line 49
CheckedDestination(dst, resolved) == EffectiveDestination(dst, resolved)

\* variant: everything up to the first ":" is taken for a transport and skipped
HasExplicitTagAnyTransport(dst) == ContainsAny(Tail2(dst, IndexOf(dst, ":")), ":")

\* push.go 56-57: a ":" remains after trimming a leading "docker://"
HasExplicitTag(dst) == ContainsAny(TrimPrefix(dst, DockerPrefix), ":")

\* push.go 69: fmt.Sprintf("%s:%s", destination, tag.Tag())
FullNamedTag(dst, tag) == dst \o Colon \o <<tag>>

NoRef == [ok |-> FALSE, transport |-> "", location |-> NoStr]

\* variant: when both parses fail the error of the second one is returned
ResolveDestinationFallbackErr(dst, n) ==
    LET r1 == ParseImageName(dst)
        r2 == ParseImageName(DockerPrefix \o dst)
    IN  IF r1.ok
        THEN [ok |-> TRUE, ref |-> r1, err |-> NoErr, parsed |-> <<dst>>]
        ELSE IF ~r2.ok
        THEN [ok |-> FALSE, ref |-> NoRef, err |-> Err(r2.kind, n, r2.arg),
              parsed |-> <<dst, DockerPrefix \o dst>>]
        ELSE [ok |-> TRUE, ref |-> r2, err |-> NoErr,
              parsed |-> <<dst, DockerPrefix \o dst>>]

\* push.go 91-100: parse as given, else retry with "docker://" in front
ResolveDestination(dst, n) ==
    LET r1 == ParseImageName(dst)
        r2 == ParseImageName(DockerPrefix \o dst)
    IN  IF r1.ok
        THEN [ok |-> TRUE, ref |-> r1, err |-> NoErr, parsed |-> <<dst>>]
        ELSE IF ~r2.ok
        THEN [ok |-> FALSE, ref |-> NoRef, err |-> Err(r1.kind, n, r1.arg),
              parsed |-> <<dst, DockerPrefix \o dst>>]
        ELSE [ok |-> TRUE, ref |-> r2, err |-> NoErr,
              parsed |-> <<dst, DockerPrefix \o dst>>]

\* variant: only the archive transport is refused
TransportRejectedArchiveOnly(ref, allTags) ==
    ref.transport = DockerArchiveTransportName /\ allTags

\* variant: the comparison of the transport names is the wrong way round
TransportRejectedInverted(ref, allTags) == ref.transport = DockerTransportName /\ allTags

\* push.go 103: --all-tags must push to a registry
TransportRejected(ref, allTags) == ref.transport # DockerTransportName /\ allTags

\* push.go 107: the event is deferred only when the runtime has an event channel
EventRegistered(ch) == ch

\* variant: any canonical name is kept, tagged or not
ArchiveTagsAnyNamed(ref, dst, cur) ==
    IF ref.transport = DockerArchiveTransportName
    THEN LET named == ParseNamed(dst)
         IN  IF named.ok THEN <<[name |-> dst, tag |-> named.tag]>>
             ELSE cur
    ELSE cur

\* variant: the transport of the destination is not looked at
ArchiveTagsAnyTransport(ref, dst, cur) ==
    LET named == ParseNamed(dst)
    IN  IF named.ok /\ named.tag # NoTag THEN <<[name |-> dst, tag |-> named.tag]>>
        ELSE cur

\* push.go 113-120: a docker-archive destination that is a tagged canonical
\* name replaces the additional tags, anything else leaves them
ArchiveTags(ref, dst, cur) ==
    IF ref.transport = DockerArchiveTransportName
    THEN LET named == ParseNamed(dst)
         IN  IF named.ok /\ named.tag # NoTag THEN <<[name |-> dst, tag |-> named.tag]>>
             ELSE cur
    ELSE cur

\* variant: the loop carries on after a failed tag
LoopNeverStops(err) == FALSE

\* push.go 71-73: the loop stops at the first failing tag
LoopStops(err) == err # NoErr

EventTypeImagePush == "ImagePush"

NoBytes == [manifest |-> 0]


\* ------------------------------------------------------------------ state
VARIABLES
    names,          \* store: the names of the stored image, in store order
    eventChannel,   \* r.eventChannel != nil
    callerOptions,  \* the caller's PushOptions value: AllTags, dockerArchiveAdditionalTags
    nilCall,        \* the running Push call was given nil options
    options,        \* the PushOptions value the running call works on: the
                    \* caller's, or the one made at push.go 33 for nil options
    calls,          \* number of Push calls started
    pc,             \* position of the running Push call
    destination,    \* Push: destination, after defaulting
    resolvedSource, \* Push: second result of LookupImage
    namedRepoTags,  \* Push: tags of the image, as queried
    idx,            \* Push: position of the range loop (1-based)
    ret,            \* Push: returned (bytes, err)
    pdest,          \* pushImage: destination argument
    destRef,        \* pushImage: destRef
    deferEvent,     \* pushImage: writeEvent is deferred
    deferClose,     \* pushImage: c.close is deferred
    pret,           \* pushImage: returned (bytes, err)
    arg,            \* the source and destination the Push call was given
    tags0,          \* dockerArchiveAdditionalTags when the Push call started
    lookups,        \* history: LookupImage calls of this Push call
    tagQueries,     \* history: NamedTaggedRepoTags calls of this Push call
    pushLog,        \* history: destinations pushImage was invoked with
    returned,       \* history: number of pushImage invocations that returned
    results,        \* history: what each returned pushImage invocation returned
    parseLog,       \* history: ParseImageName arguments of the current pushImage
    copierLog,      \* history: newCopier calls (destination, reference, tags)
    copyLog,        \* history: copier.copy calls
    closed,         \* history: number of copier.close calls
    inflight,       \* history: copier.copy calls that have not returned
    copied,         \* history: what each copier.copy call returned
    events          \* history: events written

vars == <<names, eventChannel, callerOptions, nilCall, options, calls, pc, destination, resolvedSource,
          namedRepoTags, idx, ret, pdest, destRef, deferEvent, deferClose, pret,
          arg, tags0, lookups, tagQueries, pushLog, returned, results, parseLog,
          copierLog, copyLog, closed, inflight, copied, events>>

store == <<names, eventChannel>>

frame == <<pdest, destRef, deferEvent, deferClose, pret>>

history == <<lookups, tagQueries, pushLog, returned, results, parseLog, copierLog,
             copyLog, closed, inflight, copied, events>>

NoRet == [bytes |-> NoBytes, err |-> NoErr]

Init ==
    /\ names \in NameLists
    /\ eventChannel \in BOOLEAN
    /\ callerOptions = [AllTags |-> FALSE, dockerArchiveAdditionalTags |-> <<>>]
    /\ nilCall = FALSE
    /\ options = [AllTags |-> FALSE, dockerArchiveAdditionalTags |-> <<>>]
    /\ calls = 0
    /\ pc = "idle"
    /\ destination = NoStr
    /\ resolvedSource = NoStr
    /\ namedRepoTags = <<>>
    /\ idx = 0
    /\ ret = NoRet
    /\ pdest = NoStr
    /\ destRef = NoRef
    /\ deferEvent = FALSE
    /\ deferClose = FALSE
    /\ pret = NoRet
    /\ arg = [source |-> NoStr, destination |-> NoStr]
    /\ tags0 = <<>>
    /\ lookups = 0
    /\ tagQueries = 0
    /\ pushLog = <<>>
    /\ returned = 0
    /\ results = <<>>
    /\ parseLog = <<>>
    /\ copierLog = <<>>
    /\ copyLog = <<>>
    /\ closed = 0
    /\ inflight = 0
    /\ copied = <<>>
    /\ events = <<>>

\* push.go 31-59, 75-77: a Push call up to the tag query or the single pushImage.
\* nilOptions: the caller passes nil, and the call works on a value of its own
\* (push.go 32-34) that the caller never sees; otherwise the caller passes a
\* pointer to its own options value with AllTags set to allTags, and what the
\* call writes into it stays there for the caller's next call.
Push(src, dst, nilOptions, allTags) ==
    LET opts == IF nilOptions
                THEN [AllTags |-> FALSE, dockerArchiveAdditionalTags |-> <<>>]
                ELSE [callerOptions EXCEPT !.AllTags = allTags]
        found == LookupImage(src, names)
        dest == EffectiveDestination(dst, found.resolvedSource)
    IN  /\ pc \in {"idle", "done"}
        /\ calls < MaxCalls
        /\ calls' = calls + 1
        /\ options' = opts
        /\ nilCall' = nilOptions
        /\ callerOptions' = IF nilOptions THEN callerOptions ELSE opts
        /\ arg' = [source |-> src, destination |-> dst]
        /\ tags0' = opts.dockerArchiveAdditionalTags
        /\ lookups' = 1
        /\ tagQueries' = 0
        /\ returned' = 0
        /\ results' = <<>>
        /\ parseLog' = <<>>
        /\ copierLog' = <<>>
        /\ copyLog' = <<>>
        /\ closed' = 0
        /\ inflight' = 0
        /\ copied' = <<>>
        /\ events' = <<>>
        /\ namedRepoTags' = <<>>
        /\ idx' = 0
        /\ destRef' = NoRef
        /\ deferEvent' = FALSE
        /\ deferClose' = FALSE
        /\ pret' = NoRet
        /\ UNCHANGED store
        /\ IF LookupFailed(found)
           THEN /\ ret' = [bytes |-> NoBytes, err |-> found.err]
                /\ pc' = "done"
                /\ destination' = dst
                /\ resolvedSource' = NoStr
                /\ pdest' = NoStr
                /\ pushLog' = <<>>
           ELSE /\ resolvedSource' = found.resolvedSource
                /\ destination' = dest
                /\ IF opts.AllTags
                   THEN IF HasExplicitTag(CheckedDestination(dst, found.resolvedSource))
                        THEN /\ ret' = [bytes |-> NoBytes, err |-> ConflictingTagError]
                             /\ pc' = "done"
                             /\ pdest' = NoStr
                             /\ pushLog' = <<>>
                        ELSE /\ ret' = NoRet
                             /\ pc' = "tags"
                             /\ pdest' = NoStr
                             /\ pushLog' = <<>>
                   ELSE /\ ret' = NoRet
                        /\ pc' = "pushImage"
                        /\ pdest' = dest
                        /\ pushLog' = <<dest>>

\* push.go 61-64: image.NamedTaggedRepoTags(), which the store may fail
QueryTags(ok) ==
    /\ pc = "tags"
    /\ tagQueries' = tagQueries + 1
    /\ IF ok
       THEN /\ namedRepoTags' = RepoTags(names)
            /\ idx' = 1
            /\ pc' = "loop"
            /\ ret' = ret
       ELSE /\ namedRepoTags' = namedRepoTags
            /\ idx' = idx
            /\ pc' = "done"
            /\ ret' = [bytes |-> NoBytes, err |-> Err("NamedTaggedRepoTags", 0, NoStr)]
    /\ UNCHANGED <<store, options, calls, destination, resolvedSource, frame, arg, tags0,
                   lookups, pushLog, returned, results, parseLog, copierLog, copyLog,
                   closed, inflight, events, copied, callerOptions, nilCall>>

\* variant: an image without tags is an error
LoopNextEmptyIsError ==
    /\ pc = "loop"
    /\ IF idx > Len(namedRepoTags)
       THEN /\ pc' = "done"
            /\ ret' = IF Len(namedRepoTags) = 0
                      THEN [bytes |-> NoBytes, err |-> Err("no tags to push", 0, NoStr)]
                      ELSE NoRet
            /\ UNCHANGED <<pdest, pushLog>>
       ELSE /\ pc' = "pushImage"
            /\ pdest' = FullNamedTag(destination, namedRepoTags[idx])
            /\ pushLog' = Append(pushLog, FullNamedTag(destination, namedRepoTags[idx]))
            /\ ret' = ret
    /\ UNCHANGED <<store, options, calls, destination, resolvedSource, namedRepoTags,
                   idx, destRef, deferEvent, deferClose, pret, arg, tags0, lookups,
                   tagQueries, returned, results, parseLog, copierLog, copyLog, closed,
                   inflight, events, copied, callerOptions, nilCall>>

\* variant: after the last tag Push returns what the last pushImage returned
LoopNextReturnsLast ==
    /\ pc = "loop"
    /\ IF idx > Len(namedRepoTags)
       THEN /\ pc' = "done"
            /\ ret' = pret
            /\ UNCHANGED <<pdest, pushLog>>
       ELSE /\ pc' = "pushImage"
            /\ pdest' = FullNamedTag(destination, namedRepoTags[idx])
            /\ pushLog' = Append(pushLog, FullNamedTag(destination, namedRepoTags[idx]))
            /\ ret' = ret
    /\ UNCHANGED <<store, options, calls, destination, resolvedSource, namedRepoTags,
                   idx, destRef, deferEvent, deferClose, pret, arg, tags0, lookups,
                   tagQueries, returned, results, parseLog, copierLog, copyLog, closed,
                   inflight, events, copied, callerOptions, nilCall>>

\* variant: the loop walks the tags from the last to the first
LoopNextReversed ==
    /\ pc = "loop"
    /\ IF idx > Len(namedRepoTags)
       THEN /\ pc' = "done"
            /\ ret' = NoRet
            /\ UNCHANGED <<pdest, pushLog>>
       ELSE /\ pc' = "pushImage"
            /\ pdest' = FullNamedTag(destination, namedRepoTags[Len(namedRepoTags) + 1 - idx])
            /\ pushLog' = Append(pushLog,
                   FullNamedTag(destination, namedRepoTags[Len(namedRepoTags) + 1 - idx]))
            /\ ret' = ret
    /\ UNCHANGED <<store, options, calls, destination, resolvedSource, namedRepoTags,
                   idx, destRef, deferEvent, deferClose, pret, arg, tags0, lookups,
                   tagQueries, returned, results, parseLog, copierLog, copyLog, closed,
                   inflight, events, copied, callerOptions, nilCall>>

\* push.go 68-70, 80: the range loop, entering pushImage for the next tag
LoopNext ==
    /\ pc = "loop"
    /\ IF idx > Len(namedRepoTags)
       THEN /\ pc' = "done"
            /\ ret' = NoRet
            /\ UNCHANGED <<pdest, pushLog>>
       ELSE /\ pc' = "pushImage"
            /\ pdest' = FullNamedTag(destination, namedRepoTags[idx])
            /\ pushLog' = Append(pushLog, FullNamedTag(destination, namedRepoTags[idx]))
            /\ ret' = ret
    /\ UNCHANGED <<store, options, calls, destination, resolvedSource, namedRepoTags,
                   idx, destRef, deferEvent, deferClose, pret, arg, tags0, lookups,
                   tagQueries, returned, results, parseLog, copierLog, copyLog, closed,
                   inflight, events, copied, callerOptions, nilCall>>

\* variant: the event is deferred on entry, before the destination is resolved
PushImageResolveEventFirst(srcRefOk) ==
    LET n == Len(pushLog)
        r == ResolveDestination(pdest, n)
    IN  /\ pc = "pushImage"
        /\ deferClose' = FALSE
        /\ IF ~srcRefOk
           THEN /\ pret' = [bytes |-> NoBytes, err |-> Err("StorageReference", n, NoStr)]
                /\ pc' = "defers"
                /\ parseLog' = <<>>
                /\ destRef' = NoRef
                /\ deferEvent' = EventRegistered(eventChannel)
                /\ options' = options
           ELSE /\ parseLog' = r.parsed
                /\ destRef' = r.ref
                /\ IF ~r.ok
                   THEN /\ pret' = [bytes |-> NoBytes, err |-> r.err]
                        /\ pc' = "defers"
                        /\ deferEvent' = EventRegistered(eventChannel)
                        /\ options' = options
                   ELSE IF TransportRejected(r.ref, options.AllTags)
                   THEN /\ pret' = [bytes |-> NoBytes, err |-> [UnsupportedModeError EXCEPT !.n = n]]
                        /\ pc' = "defers"
                        /\ deferEvent' = EventRegistered(eventChannel)
                        /\ options' = options
                   ELSE /\ pret' = NoRet
                        /\ pc' = "newCopier"
                        /\ deferEvent' = EventRegistered(eventChannel)
                        /\ options' = [options EXCEPT !.dockerArchiveAdditionalTags =
                                          ArchiveTags(r.ref, pdest, @)]
    /\ callerOptions' = (IF nilCall THEN callerOptions ELSE options')
    /\ UNCHANGED <<store, calls, destination, resolvedSource, namedRepoTags, idx, ret,
                   pdest, arg, tags0, lookups, tagQueries, pushLog, returned, results, copierLog,
                   copyLog, closed, inflight, events, copied, nilCall>>

\* push.go 84-120: pushImage up to the construction of the copier
PushImageResolve(srcRefOk) ==
    LET n == Len(pushLog)
        r == ResolveDestination(pdest, n)
    IN  /\ pc = "pushImage"
        /\ deferClose' = FALSE
        /\ IF ~srcRefOk
           THEN /\ pret' = [bytes |-> NoBytes, err |-> Err("StorageReference", n, NoStr)]
                /\ pc' = "defers"
                /\ parseLog' = <<>>
                /\ destRef' = NoRef
                /\ deferEvent' = FALSE
                /\ options' = options
           ELSE /\ parseLog' = r.parsed
                /\ destRef' = r.ref
                /\ IF ~r.ok
                   THEN /\ pret' = [bytes |-> NoBytes, err |-> r.err]
                        /\ pc' = "defers"
                        /\ deferEvent' = FALSE
                        /\ options' = options
                   ELSE IF TransportRejected(r.ref, options.AllTags)
                   THEN /\ pret' = [bytes |-> NoBytes, err |-> [UnsupportedModeError EXCEPT !.n = n]]
                        /\ pc' = "defers"
                        /\ deferEvent' = FALSE
                        /\ options' = options
                   ELSE /\ pret' = NoRet
                        /\ pc' = "newCopier"
                        /\ deferEvent' = EventRegistered(eventChannel)
                        /\ options' = [options EXCEPT !.dockerArchiveAdditionalTags =
                                          ArchiveTags(r.ref, pdest, @)]
    /\ callerOptions' = (IF nilCall THEN callerOptions ELSE options')
    /\ UNCHANGED <<store, calls, destination, resolvedSource, namedRepoTags, idx, ret,
                   pdest, arg, tags0, lookups, tagQueries, pushLog, returned, results, copierLog,
                   copyLog, closed, inflight, events, copied, nilCall>>

\* push.go 122-127: r.newCopier(&options.CopyOptions)
NewCopier(ok) ==
    /\ pc = "newCopier"
    /\ copierLog' = Append(copierLog, [n |-> Len(pushLog), dest |-> pdest, ref |-> destRef,
                                       tags |-> options.dockerArchiveAdditionalTags])
    /\ IF ok
       THEN /\ deferClose' = TRUE
            /\ pc' = "copy"
            /\ pret' = pret
       ELSE /\ deferClose' = FALSE
            /\ pc' = "defers"
            /\ pret' = [bytes |-> NoBytes, err |-> Err("newCopier", Len(pushLog), NoStr)]
    /\ UNCHANGED <<store, options, calls, destination, resolvedSource, namedRepoTags,
                   idx, ret, pdest, destRef, deferEvent, arg, tags0, lookups, tagQueries,
                   pushLog, returned, results, parseLog, copyLog, closed, inflight, events, copied, callerOptions, nilCall>>

\* push.go 129: c.copy is called
CopyBegin ==
    /\ pc = "copy"
    /\ pc' = "copying"
    /\ inflight' = inflight + 1
    /\ copyLog' = Append(copyLog, [n |-> Len(pushLog), dest |-> pdest, ref |-> destRef])
    /\ UNCHANGED <<store, options, calls, destination, resolvedSource, namedRepoTags,
                   idx, ret, frame, arg, tags0, lookups, tagQueries, pushLog, returned, results,
                   parseLog, copierLog, closed, events, copied, callerOptions, nilCall>>

\* push.go 129: c.copy returns bytes or an error
CopyReturn(ok) ==
    /\ pc = "copying"
    /\ pc' = "defers"
    /\ inflight' = inflight - 1
    /\ pret' = IF ok THEN [bytes |-> [manifest |-> Len(pushLog)], err |-> NoErr]
               ELSE [bytes |-> NoBytes, err |-> Err("copy", Len(pushLog), NoStr)]
    /\ copied' = Append(copied,
                        IF ok THEN [n |-> Len(pushLog), bytes |-> [manifest |-> Len(pushLog)],
                                    err |-> NoErr]
                        ELSE [n |-> Len(pushLog), bytes |-> NoBytes,
                              err |-> Err("copy", Len(pushLog), NoStr)])
    /\ UNCHANGED <<store, options, calls, destination, resolvedSource, namedRepoTags,
                   idx, ret, pdest, destRef, deferEvent, deferClose, arg, tags0, lookups,
                   tagQueries, pushLog, returned, results, parseLog, copierLog, copyLog,
                   closed, events, callerOptions, nilCall>>

\* push.go 127: the deferred c.close() runs first (last deferred)
DeferClose ==
    /\ pc = "defers"
    /\ deferClose
    /\ deferClose' = FALSE
    /\ closed' = closed + 1
    /\ UNCHANGED <<store, options, calls, pc, destination, resolvedSource, namedRepoTags,
                   idx, ret, pdest, destRef, deferEvent, pret, arg, tags0, lookups,
                   tagQueries, pushLog, returned, results, parseLog, copierLog, copyLog,
                   inflight, events, copied, callerOptions, nilCall>>

\* variant: the event is written at the end of a successful push only
DeferEventOnSuccessOnly ==
    /\ pc = "defers"
    /\ ~deferClose
    /\ deferEvent
    /\ deferEvent' = FALSE
    /\ events' = IF pret.err = NoErr
                 THEN Append(events, [ID |-> ImageID, Name |-> pdest,
                                      Type |-> EventTypeImagePush, n |-> Len(pushLog)])
                 ELSE events
    /\ UNCHANGED <<store, options, calls, pc, destination, resolvedSource, namedRepoTags,
                   idx, ret, pdest, destRef, deferClose, pret, arg, tags0, lookups,
                   tagQueries, pushLog, returned, results, parseLog, copierLog, copyLog,
                   closed, inflight, copied, callerOptions, nilCall>>

\* variant: the event is named after the destination of Push, not of pushImage
DeferEventBaseName ==
    /\ pc = "defers"
    /\ ~deferClose
    /\ deferEvent
    /\ deferEvent' = FALSE
    /\ events' = Append(events, [ID |-> ImageID, Name |-> destination,
                                 Type |-> EventTypeImagePush, n |-> Len(pushLog)])
    /\ UNCHANGED <<store, options, calls, pc, destination, resolvedSource, namedRepoTags,
                   idx, ret, pdest, destRef, deferClose, pret, arg, tags0, lookups,
                   tagQueries, pushLog, returned, results, parseLog, copierLog, copyLog,
                   closed, inflight, copied, callerOptions, nilCall>>

\* variant: the event is written before the copier is closed
DeferEventBeforeClose ==
    /\ pc = "defers"
    /\ deferEvent
    /\ deferEvent' = FALSE
    /\ events' = Append(events, [ID |-> ImageID, Name |-> pdest, Type |-> EventTypeImagePush,
                                 n |-> Len(pushLog)])
    /\ UNCHANGED <<store, options, calls, pc, destination, resolvedSource, namedRepoTags,
                   idx, ret, pdest, destRef, deferClose, pret, arg, tags0, lookups,
                   tagQueries, pushLog, returned, results, parseLog, copierLog, copyLog,
                   closed, inflight, copied, callerOptions, nilCall>>

\* push.go 108: the deferred r.writeEvent(...) runs after it.  The event's
\* Time (time.Now()) is left out; n records which pushImage wrote it.
DeferEvent ==
    /\ pc = "defers"
    /\ ~deferClose
    /\ deferEvent
    /\ deferEvent' = FALSE
    /\ events' = Append(events, [ID |-> ImageID, Name |-> pdest, Type |-> EventTypeImagePush,
                                 n |-> Len(pushLog)])
    /\ UNCHANGED <<store, options, calls, pc, destination, resolvedSource, namedRepoTags,
                   idx, ret, pdest, destRef, deferClose, pret, arg, tags0, lookups,
                   tagQueries, pushLog, returned, results, parseLog, copierLog, copyLog,
                   closed, inflight, copied, callerOptions, nilCall>>

\* push.go 70-73, 77: pushImage returns to Push
PushImageReturn ==
    /\ pc = "defers"
    /\ ~deferClose
    /\ ~deferEvent
    /\ returned' = returned + 1
    /\ results' = Append(results, [n |-> Len(pushLog), dest |-> pdest, bytes |-> pret.bytes,
                                   err |-> pret.err, ref |-> destRef])
    /\ IF options.AllTags
       THEN IF LoopStops(pret.err)
            THEN /\ ret' = [bytes |-> NoBytes, err |-> pret.err]
                 /\ pc' = "done"
                 /\ idx' = idx
            ELSE /\ ret' = ret
                 /\ pc' = "loop"
                 /\ idx' = idx + 1
       ELSE /\ ret' = pret
            /\ pc' = "done"
            /\ idx' = idx
    /\ UNCHANGED <<store, options, calls, destination, resolvedSource, namedRepoTags,
                   frame, arg, tags0, lookups, tagQueries, pushLog, parseLog, copierLog,
                   copyLog, closed, inflight, events, copied, callerOptions, nilCall>>

Next ==
    \/ \E src \in Sources, dst \in Destinations, nilOptions \in BOOLEAN, allTags \in BOOLEAN :
          Push(src, dst, nilOptions, allTags)
    \/ \E ok \in BOOLEAN : QueryTags(ok)
    \/ LoopNext
    \/ \E ok \in BOOLEAN : PushImageResolve(ok)
    \/ \E ok \in BOOLEAN : NewCopier(ok)
    \/ CopyBegin
    \/ \E ok \in BOOLEAN : CopyReturn(ok)
    \/ DeferClose
    \/ DeferEvent
    \/ PushImageReturn

Spec == Init /\ [][Next]_vars


\* ------------------------------------------------------------------ claims
Running == pc # "idle"

\* the source of the running call is in the store
Found == LookupImage(arg.source, names).found

\* the tags of the stored image in store order, read from the store itself
StoreTag(k) == names[k][Len(names[k])]

\* "<base>:<tag k>" written out token by token
PerTagDestination(k) == destination \o <<":", StoreTag(k)>>

\* the destination, without a leading "docker://", has a ":" in it
ColonAfterPrefix(d) ==
    LET t == IF Len(d) >= 4 /\ d[1] = "docker" /\ d[2] = ":" /\ d[3] = "/" /\ d[4] = "/"
             THEN SubSeq(d, 5, Len(d)) ELSE d
    IN  \E k \in 1..Len(t) : t[k] = ":"

\* C1: in an all-tags Push the pushImage invocations are, in this order, those
\* for "<base>:t1", ..., "<base>:tn" with t1..tn in store order; an invocation
\* starts only when every earlier one has returned, at most one copy is in
\* flight, and a Push that returns without error has made exactly n of them.
C1_AllTagsInOrder ==
    (Running /\ options.AllTags) =>
        /\ Len(pushLog) <= Len(names)
        /\ \A k \in 1..Len(pushLog) : pushLog[k] = PerTagDestination(k)
        /\ Len(pushLog) - returned \in {0, 1}
        /\ inflight <= Len(pushLog) - returned
        /\ inflight <= 1
        /\ (pc = "done" /\ ret.err = NoErr)
              => /\ Len(pushLog) = Len(names)
                 /\ returned = Len(names)
                 /\ \A k \in 1..Len(names) : \E j \in 1..Len(copyLog) :
                        copyLog[j].n = k /\ copyLog[j].dest = PerTagDestination(k)

C1_Witness ==
    /\ pc = "done"
    /\ options.AllTags
    /\ ret.err = NoErr
    /\ Len(pushLog) = 2
    /\ pushLog[1] # pushLog[2]
    /\ Len(copyLog) = 2

\* C2: in an all-tags Push, once the pushImage for tag k has failed, Push has
\* returned that error with no bytes, and nothing exists for a later tag: no
\* pushImage invocation, no copier, no copy, no event.
C2_FailFast ==
    (Running /\ options.AllTags) =>
        \A k \in 1..Len(results) :
            results[k].err # NoErr =>
                /\ pc = "done"
                /\ ret = [bytes |-> NoBytes, err |-> results[k].err]
                /\ ret.err.n = k
                /\ Len(pushLog) = k
                /\ \A j \in 1..Len(copierLog) : copierLog[j].n <= k
                /\ \A j \in 1..Len(copyLog) : copyLog[j].n <= k
                /\ \A j \in 1..Len(events) : events[j].n <= k

C2_Witness ==
    /\ pc = "done"
    /\ options.AllTags
    /\ Len(names) = 2
    /\ Len(results) = 1
    /\ results[1].err.kind = "copy"
    /\ ret.err = results[1].err

\* C3: an all-tags Push of a stored source whose destination has a ":" after
\* a leading "docker://" is dropped fails with the conflicting-tag error, and
\* nothing was attempted: no tag query, no pushImage, no copier, no copy, no
\* event.
C3_ConflictingTag ==
    (Running /\ options.AllTags /\ Found /\ ColonAfterPrefix(destination)) =>
        /\ pc = "done"
        /\ ret = [bytes |-> NoBytes,
                  err |-> [kind |-> "tag can't be used with --all-tags/-a", n |-> 0, arg |-> <<>>]]
        /\ tagQueries = 0
        /\ pushLog = <<>>
        /\ copierLog = <<>>
        /\ copyLog = <<>>
        /\ events = <<>>

C3_Witness ==
    /\ pc = "done"
    /\ options.AllTags
    /\ Found
    /\ arg.destination = <<"docker", ":", "/", "/", "quay.io", "/", "repo", ":", "v1">>
    /\ ret.err = ConflictingTagError
    /\ Len(names) > 0


\* the events written for the k-th pushImage invocation of the running call
EventsOf(k) == {j \in 1..Len(events) : events[j].n = k}

\* the k-th pushImage invocation got a destination reference
Resolved(k) == results[k].ref.ok

\* the k-th pushImage invocation was refused by the all-tags transport check
RefusedTransport(k) ==
    results[k].err.kind = "--all-tags can only be used with docker transport"

\* "<d>:v1" resolves, and to a transport other than the registry
PerTagNonRegistry(d) ==
    LET r == ResolveDestination(d \o <<":", "v1">>, 0)
    IN  r.ok /\ r.ref.transport # "docker"

\* the destination resolves, and to a transport other than the registry
NonRegistry(d) ==
    LET r == ResolveDestination(d, 0)
    IN  r.ok /\ r.ref.transport # "docker"

\* C4 as stated: an all-tags Push of a stored source whose destination, as given
\* or with a tag appended, resolves to a transport other than the registry
\* returns the unsupported-mode error, whatever the destination and the tags
\* of the source.
C4_Original ==
    (pc = "done" /\ options.AllTags /\ Found
        /\ (NonRegistry(destination) \/ PerTagNonRegistry(destination))) =>
        ret.err.kind = "--all-tags can only be used with docker transport"

\* C4 amended: in an all-tags Push every pushImage invocation that got a
\* destination reference of a transport other than the registry returns the
\* unsupported-mode error without creating a copier, and Push returns that
\* error with no bytes.  (Push returns something else when the destination
\* fails the explicit-tag check, when the source has no tags, or when the tag
\* query or the storage reference fails.)
C4_Amended ==
    (Running /\ options.AllTags) =>
        \A k \in 1..Len(results) :
            (Resolved(k) /\ results[k].ref.transport # "docker") =>
                /\ RefusedTransport(k)
                /\ results[k].bytes = NoBytes
                /\ \A j \in 1..Len(copierLog) : copierLog[j].n # k
                /\ pc = "done"
                /\ ret = [bytes |-> NoBytes, err |-> results[k].err]

C4_Witness ==
    /\ pc = "done"
    /\ options.AllTags
    /\ Len(results) = 1
    /\ results[1].ref.transport = "dir"
    /\ RefusedTransport(1)
    /\ ret.err = results[1].err

\* C5 as stated (on a runtime with an event channel): every returned pushImage
\* invocation that got a destination reference has written an event for the
\* image and that destination, whichever way it returned.
C5_Original ==
    (Running /\ eventChannel) =>
        \A k \in 1..Len(results) :
            Resolved(k) =>
                \E j \in EventsOf(k) :
                    events[j].ID = ImageID /\ events[j].Name = pushLog[k]

\* C5 amended: on a runtime with an event channel, every returned pushImage
\* invocation that got a destination reference and passed the all-tags
\* transport check has written exactly one event for the image and that
\* destination, whether the copier could not be created, the copy failed or
\* the copy succeeded; an invocation refused by the transport check, or made
\* on a runtime without an event channel, has written none.
C5_Amended ==
    Running =>
        \A k \in 1..Len(results) :
            IF eventChannel /\ Resolved(k) /\ ~RefusedTransport(k)
            THEN /\ Cardinality(EventsOf(k)) = 1
                 /\ \A j \in EventsOf(k) :
                        events[j].ID = ImageID /\ events[j].Name = pushLog[k]
            ELSE EventsOf(k) = {}

C5_Witness ==
    /\ eventChannel
    /\ \E k \in 1..Len(results) :
          /\ results[k].err.kind \in {"copy", "newCopier"}
          /\ Cardinality(EventsOf(k)) = 1

\* C6 as stated: every pushImage invocation that returned without error has
\* written exactly one event, of type ImagePush, with the image's ID and the
\* destination of that invocation.
C6_Original ==
    Running =>
        \A k \in 1..Len(results) :
            results[k].err = NoErr =>
                /\ Cardinality(EventsOf(k)) = 1
                /\ \A j \in EventsOf(k) :
                      /\ events[j].Type = "ImagePush"
                      /\ events[j].ID = ImageID
                      /\ events[j].Name = pushLog[k]

\* C6 amended: on a runtime with an event channel, every pushImage invocation
\* that returned without error has written exactly one event, of type
\* ImagePush, with the image's ID and the destination of that invocation (in
\* all-tags mode "<base>:<tag>"); on a runtime without one it has written none.
C6_Amended ==
    Running =>
        \A k \in 1..Len(results) :
            results[k].err = NoErr =>
                /\ Cardinality(EventsOf(k)) = (IF eventChannel THEN 1 ELSE 0)
                /\ \A j \in EventsOf(k) :
                      /\ events[j].Type = "ImagePush"
                      /\ events[j].ID = ImageID
                      /\ events[j].Name = pushLog[k]
                      /\ options.AllTags => events[j].Name = PerTagDestination(k)

C6_Witness ==
    /\ eventChannel
    /\ options.AllTags
    /\ Len(results) = 2
    /\ results[2].err = NoErr
    /\ Cardinality(EventsOf(2)) = 1


\* C7: in a Push whose options start with no additional tags, a pushImage that
\* reaches the archive step with a docker-archive destination always goes on
\* to create the copier, and the copier gets exactly the one tag of the
\* destination when the destination is a canonical name with a tag, and no
\* tag when the destination has no tag or is not such a name.
C7_ArchiveTag ==
    (Running /\ tags0 = <<>>) =>
        /\ \A j \in 1..Len(copierLog) :
              copierLog[j].ref.transport = "docker-archive" =>
                  LET named == ParseNamed(copierLog[j].dest)
                  IN  IF named.ok /\ named.tag # ""
                      THEN copierLog[j].tags = <<[name |-> copierLog[j].dest, tag |-> named.tag]>>
                      ELSE copierLog[j].tags = <<>>
        /\ \A k \in 1..Len(results) :
              (Resolved(k) /\ results[k].ref.transport = "docker-archive" /\ ~options.AllTags)
                  => \E j \in 1..Len(copierLog) : copierLog[j].n = k

C7_Witness ==
    /\ tags0 = <<>>
    /\ pc = "done"
    /\ Len(copierLog) = 1
    /\ copierLog[1].ref.transport = "docker-archive"
    /\ copierLog[1].tags = <<[name |-> <<"docker-archive", ":", "5000", "/", "foo", ":", "v1">>,
                              tag |-> "v1"]>>
    /\ Len(copyLog) = 1

\* C8: whatever Push calls share one options value, every additional tag a
\* copier gets was taken from the destination of the pushImage that created
\* that copier.
C8_TagsScopedToDestination ==
    \A j \in 1..Len(copierLog) :
        \A t \in 1..Len(copierLog[j].tags) :
            copierLog[j].tags[t].name = copierLog[j].dest

\* C9: once pushImage has the storage reference, the destination is parsed as
\* given; if that parse succeeds its reference is used and nothing else is
\* parsed; if not, "docker://" + destination is parsed and, if that succeeds,
\* its (registry) reference is used; if both fail pushImage returns the error
\* of the first parse and creates no copier, copies nothing, writes no event.
C9_Resolution ==
    (pc \in {"newCopier", "copy", "copying", "defers", "loop", "done"} /\ parseLog # <<>>) =>
        LET first == ParseImageName(pdest)
            second == ParseImageName(<<"docker", ":", "/", "/">> \o pdest)
            n == Len(pushLog)
        IN  /\ parseLog[1] = pdest
            /\ first.ok => parseLog = <<pdest>> /\ destRef = first
            /\ (~first.ok /\ second.ok) =>
                  /\ parseLog = <<pdest, <<"docker", ":", "/", "/">> \o pdest>>
                  /\ destRef = second
                  /\ destRef.transport = "docker"
            /\ (~first.ok /\ ~second.ok) =>
                  /\ parseLog = <<pdest, <<"docker", ":", "/", "/">> \o pdest>>
                  /\ ~destRef.ok
                  /\ pc \in {"defers", "loop", "done"}
                  /\ pret.bytes = NoBytes
                  /\ pret.err.kind = first.kind
                  /\ pret.err.arg = first.arg
                  /\ \A j \in 1..Len(copierLog) : copierLog[j].n # n
                  /\ \A j \in 1..Len(copyLog) : copyLog[j].n # n
                  /\ EventsOf(n) = {}
                  /\ ~deferEvent

C9_Witness ==
    /\ pc = "done"
    /\ eventChannel
    /\ Len(parseLog) = 2
    /\ ~ParseImageName(parseLog[1]).ok
    /\ ~ParseImageName(parseLog[2]).ok
    /\ ParseImageName(parseLog[1]).kind # ParseImageName(parseLog[2]).kind
    /\ ret.err.kind = "expected colon-separated transport:reference"

\* C10: in a Push of a stored source the destination every later step works
\* with is the destination given or, when that is empty, the resolved name
\* LookupImage returned (not the ID of the image): pushImage is invoked with
\* it, or in all-tags mode with it followed by ":" and a tag.
C10_DefaultDestination ==
    (Running /\ Found) =>
        LET wanted == IF arg.destination = <<>>
                      THEN LookupImage(arg.source, names).resolvedSource
                      ELSE arg.destination
        IN  /\ destination = wanted
            /\ wanted # <<ImageID>>
            /\ \A k \in 1..Len(pushLog) :
                  IF options.AllTags
                  THEN /\ Len(pushLog[k]) = Len(wanted) + 2
                       /\ SubSeq(pushLog[k], 1, Len(wanted)) = wanted
                  ELSE pushLog[k] = wanted
            /\ (~options.AllTags /\ pc # "done") => Len(pushLog) = 1

C10_Witness ==
    /\ pc = "done"
    /\ arg.destination = <<>>
    /\ arg.source = <<"quay.io", "/", "repo">>
    /\ resolvedSource = <<"quay.io", "/", "repo", ":", "latest">>
    /\ Len(copyLog) = 1
    /\ copyLog[1].dest = resolvedSource
    /\ ret.err = NoErr


\* nothing beyond the lookup has happened in the running call
NothingAttempted ==
    /\ tagQueries = 0
    /\ pushLog = <<>>
    /\ parseLog = <<>>
    /\ copierLog = <<>>
    /\ copyLog = <<>>
    /\ events = <<>>

\* C11: a Push of a source the lookup does not find has returned the lookup's
\* error with no bytes, with or without all-tags, and has done nothing else:
\* no tag query, no pushImage, no parse, no copier, no copy, no event, and the
\* additional tags of the options are what they were before the call.
C11_LookupFailure ==
    (Running /\ ~LookupImage(arg.source, names).found) =>
        /\ pc = "done"
        /\ ret = [bytes |-> NoBytes, err |-> LookupImage(arg.source, names).err]
        /\ ret.err.kind = "ErrImageUnknown"
        /\ lookups = 1
        /\ NothingAttempted
        /\ options.dockerArchiveAdditionalTags = tags0

C11_Witness ==
    /\ pc = "done"
    /\ arg.source = <<"nosuch">>
    /\ options.AllTags
    /\ tags0 # <<>>
    /\ ret.err.kind = "ErrImageUnknown"

\* C12: an all-tags Push of a stored image without names, with a destination
\* that passes the explicit-tag check, makes no pushImage invocation, creates
\* no copier, copies nothing and writes no event, and once the tag query has
\* returned the empty list Push returns (nil, nil).
C12_NoTags ==
    (Running /\ options.AllTags /\ Found /\ ~ColonAfterPrefix(destination) /\ Len(names) = 0) =>
        /\ pushLog = <<>>
        /\ copierLog = <<>>
        /\ copyLog = <<>>
        /\ events = <<>>
        /\ pc \in {"tags", "loop", "done"}
        /\ pc = "done" =>
              \/ ret = [bytes |-> NoBytes, err |-> NoErr]
              \/ ret = [bytes |-> NoBytes,
                        err |-> [kind |-> "NamedTaggedRepoTags", n |-> 0, arg |-> <<>>]]

C12_Witness ==
    /\ pc = "done"
    /\ options.AllTags
    /\ Found
    /\ Len(names) = 0
    /\ tagQueries = 1
    /\ namedRepoTags = <<>>
    /\ idx = 1
    /\ ret = NoRet

\* C13: without all-tags Push makes exactly one pushImage invocation, at most
\* one copier and one copy, and returns what that invocation returned, which
\* is what copy returned whenever copy was called; with all-tags Push never
\* returns bytes, whatever the copies returned.
C13_ResultByMode ==
    (Running /\ Found) =>
        /\ \A j \in 1..Len(copied) : \A k \in 1..Len(results) :
              results[k].n = copied[j].n =>
                  results[k].bytes = copied[j].bytes /\ results[k].err = copied[j].err
        /\ ~options.AllTags =>
              /\ Len(pushLog) = 1
              /\ Len(copierLog) <= 1
              /\ Len(copyLog) <= 1
              /\ Len(copied) <= 1
              /\ pc = "done" =>
                    /\ Len(results) = 1
                    /\ ret = [bytes |-> results[1].bytes, err |-> results[1].err]
                    /\ Len(copied) = 1 =>
                          ret = [bytes |-> copied[1].bytes, err |-> copied[1].err]
        /\ options.AllTags => ret.bytes = [manifest |-> 0]

C13_Witness ==
    /\ pc = "done"
    /\ options.AllTags
    /\ ret = NoRet
    /\ Len(copied) = 2
    /\ copied[1].bytes # NoBytes
    /\ copied[2].bytes # NoBytes


\* C14: in an all-tags Push every copier and every copy has a destination
\* reference of the registry transport; a pushImage whose reference is of
\* another transport is refused without a copier, and one whose destination
\* parses only with "docker://" in front is not refused and gets a copier.
C14_AllTagsRegistryOnly ==
    (Running /\ options.AllTags) =>
        /\ \A j \in 1..Len(copierLog) : copierLog[j].ref.transport = "docker"
        /\ \A j \in 1..Len(copyLog) : copyLog[j].ref.transport = "docker"
        /\ \A k \in 1..Len(results) :
              /\ (Resolved(k) /\ results[k].ref.transport # "docker") =>
                    /\ RefusedTransport(k)
                    /\ \A j \in 1..Len(copierLog) : copierLog[j].n # k
              /\ (Resolved(k) /\ ~ParseImageName(pushLog[k]).ok) =>
                    /\ ~RefusedTransport(k)
                    /\ \E j \in 1..Len(copierLog) :
                          /\ copierLog[j].n = k
                          /\ copierLog[j].ref =
                                ParseImageName(<<"docker", ":", "/", "/">> \o pushLog[k])

C14_Witness ==
    /\ pc = "done"
    /\ options.AllTags
    /\ ret.err = NoErr
    /\ Len(parseLog) = 2
    /\ Len(copyLog) = 2
    /\ copyLog[2].ref.transport = "docker"

\* an event of pushImage k was written after the copy of k returned and after
\* every copier created up to k was closed
EventAfterCopyAndClose(j) ==
    LET k == events[j].n
    IN  /\ \A c \in 1..Len(copyLog) :
              copyLog[c].n = k => \E r \in 1..Len(copied) : copied[r].n = k
        /\ closed >= Cardinality({c \in 1..Len(copyLog) : copyLog[c].n <= k})

\* C15 as stated: in an all-tags Push the destinations of the events written
\* are, in order, a prefix of "<base>:t1", ..., "<base>:tn" in which no
\* destination occurs twice; each event follows the return of its copy and
\* the close of its copier and precedes the next pushImage.
C15_Original ==
    (Running /\ options.AllTags) =>
        /\ \A j \in 1..Len(events) : events[j].Name = PerTagDestination(j)
        /\ \A a, b \in 1..Len(events) : a # b => events[a].Name # events[b].Name
        /\ \A j \in 1..Len(events) : EventAfterCopyAndClose(j)
        /\ eventChannel => \A k \in 1..(Len(pushLog) - 1) : EventsOf(k) # {}

\* C15 amended: in an all-tags Push the j-th event written belongs to the
\* j-th pushImage and carries "<base>:tj", so the events are, position by
\* position, a prefix of "<base>:t1", ..., "<base>:tn" with one event for an
\* invocation at most (the same destination occurs twice when the store
\* lists the same tag twice); each event follows the return of its copy and
\* the close of its copier, and on a runtime with an event channel it
\* precedes the next pushImage.
C15_Amended ==
    (Running /\ options.AllTags) =>
        /\ \A j \in 1..Len(events) :
              /\ events[j].n = j
              /\ j <= Len(names)
              /\ events[j].Name = PerTagDestination(j)
        /\ \A j \in 1..Len(events) : EventAfterCopyAndClose(j)
        /\ eventChannel => \A k \in 1..(Len(pushLog) - 1) : Cardinality(EventsOf(k)) = 1
        /\ ~eventChannel => events = <<>>

C15_Witness ==
    /\ pc = "done"
    /\ options.AllTags
    /\ Len(events) = 2
    /\ events[1].Name = events[2].Name
    /\ closed = 2
    /\ Len(copied) = 2

\* C16: during an all-tags Push the additional tags of the options keep the
\* value they had when Push was called, and every copier created gets that
\* value.
C16_AllTagsLeavesTags ==
    (Running /\ options.AllTags) =>
        /\ options.dockerArchiveAdditionalTags = tags0
        /\ \A j \in 1..Len(copierLog) : copierLog[j].tags = tags0

C16_Witness ==
    /\ pc = "done"
    /\ options.AllTags
    /\ tags0 # <<>>
    /\ Len(copierLog) = 2
    /\ Len(results) = 2

\* the pushImage invocations of the running call that got a destination
\* reference, the one under way included
ResolvedInvocations ==
    {k \in 1..Len(pushLog) :
        IF k <= Len(results) THEN results[k].ref.ok
        ELSE pc \in {"newCopier", "copy", "copying", "defers"} /\ destRef.ok}

\* those of them that were not refused by the all-tags transport check
EligibleInvocations ==
    {k \in ResolvedInvocations :
        IF k <= Len(results) THEN ~RefusedTransport(k)
        ELSE pret.err.kind # "--all-tags can only be used with docker transport"}

\* C17: a pushImage that returned without a destination reference (no storage
\* reference, or both parses failed) wrote no event and deferred none; the
\* events never outnumber the invocations that got a reference; every copy
\* belongs to an invocation that got one and passed the transport check.
C17_NoEventBeforeResolution ==
    Running =>
        /\ \A k \in 1..Len(results) : ~results[k].ref.ok => EventsOf(k) = {}
        /\ \A j \in 1..Len(events) : events[j].n \in ResolvedInvocations
        /\ Len(events) <= Cardinality(ResolvedInvocations)
        /\ \A c \in 1..Len(copyLog) : copyLog[c].n \in EligibleInvocations
        /\ (pc = "defers" /\ ~destRef.ok) => ~deferEvent

C17_Witness ==
    /\ pc = "done"
    /\ eventChannel
    /\ Len(results) = 1
    /\ ~results[1].ref.ok
    /\ results[1].err.kind = "StorageReference"
    /\ events = <<>>

\* C18: an all-tags Push of a stored source with an empty destination fails
\* with the conflicting-tag error, before any tag query or pushImage, when the
\* resolved name LookupImage returned has a ":" in it, and goes on to the tag
\* query when it has none.
C18_CheckAfterDefaulting ==
    (Running /\ options.AllTags /\ arg.destination = <<>>
        /\ LookupImage(arg.source, names).found) =>
        LET loc == LookupImage(arg.source, names).resolvedSource
        IN  IF \E k \in 1..Len(loc) : loc[k] = ":"
            THEN /\ pc = "done"
                 /\ ret = [bytes |-> NoBytes,
                           err |-> [kind |-> "tag can't be used with --all-tags/-a",
                                    n |-> 0, arg |-> <<>>]]
                 /\ tagQueries = 0
                 /\ pushLog = <<>>
                 /\ events = <<>>
            ELSE /\ pc = "tags" \/ tagQueries = 1
                 /\ ret.err.kind # "tag can't be used with --all-tags/-a"

C18_Witness ==
    /\ pc = "done"
    /\ options.AllTags
    /\ arg.destination = <<>>
    /\ arg.source = <<"quay.io", "/", "repo">>
    /\ resolvedSource = <<"quay.io", "/", "repo", ":", "latest">>
    /\ ret.err = ConflictingTagError

====
